---- MODULE Spec2Model ----
(***************************************************************************)
(* The HTTP wrapper of src/src/utils/http/index.ts as a state machine:     *)
(* the process-wide 401 debounce pair (isUnauthorizedErrorShown,           *)
(* unauthorizedTimer), the event loop's timer queue, and the calls in      *)
(* flight through retryRequest / request / download.  Every handler runs   *)
(* to completion (JavaScript's single thread), so one action is one        *)
(* handler: a call being issued, a response being delivered to a pending   *)
(* call, a timer callback, or time passing.  A response's promise chain    *)
(* (interceptor, request's catch, retryRequest's catch, the caller's       *)
(* await) is drained before the event loop takes its next task, so the     *)
(* settled call is handed to its caller before anything else happens.      *)
(* Two callers run concurrently; each issues its next call when its        *)
(* previous one has settled, MaxCalls calls in all.                        *)
(***************************************************************************)
EXTENDS Integers, Sequences, FiniteSets, TLC

VARIABLES
  isUnauthorizedErrorShown,  \* index.ts:43
  unauthorizedTimer,         \* index.ts:44, <<>> for null, <<id>> for a handle
  timers,                    \* the pending setTimeout callbacks, in the order they run
  calls,                     \* each caller's current call of a public operation
  issued,                    \* the number of calls issued so far
  win,                       \* what happened since the 401 flag was last reset
  progress                   \* the last value handed to an onProgress callback

vars == <<isUnauthorizedErrorShown, unauthorizedTimer, timers, calls, issued, win, progress>>

(***************************** bounds ***************************************)
MaxCalls == 2
MaxRetryCount == 1
MaxLoaded == 7
MaxTotal == 7

(************************ program constants *********************************)
LOGOUT_DELAY == 500
MAX_RETRIES == 0
RETRY_DELAY == 1000
UNAUTHORIZED_DEBOUNCE_TIME == 3000

\* ./status (not among the sources): the values the retry and 401 paths name.
ApiStatus_error == 400
ApiStatus_unauthorized == 401
ApiStatus_requestTimeout == 408
ApiStatus_internalServerError == 500
ApiStatus_badGateway == 502
ApiStatus_serviceUnavailable == 503
ApiStatus_gatewayTimeout == 504

\* $t(...) of ./locales: one fixed string per message key.
t_unauthorized == "httpMsg.unauthorized"
t_requestFailed == "httpMsg.requestFailed"
t_downloadFailed == "httpMsg.downloadFailed"
t_transportFailed == "httpMsg.transport"

(************************** values ******************************************)
\* A JavaScript value used as an error code keeps its type: 500 and "500"
\* are different under === and under Array.prototype.includes.
Num(n) == [t |-> "number", n |-> n, s |-> ""]
Str(s) == [t |-> "string", n |-> 0, s |-> s]
Undef == [t |-> "undefined", n |-> 0, s |-> ""]

\* JavaScript truthiness of a code, for `error.code || ApiStatus.error`.
Truthy(v) ==
  \/ v.t = "number" /\ v.n # 0
  \/ v.t = "string" /\ v.s # ""

RECURSIVE GCD(_, _)
GCD(a, b) == IF b = 0 THEN a ELSE GCD(b, a % b)

\* Every delay of the wrapper is a multiple of TickMs, the step of the clock.
TickMs == GCD(LOGOUT_DELAY, GCD(RETRY_DELAY, UNAUTHORIZED_DEBOUNCE_TIME))

\* The concurrent callers of the wrapper.
Callers == {1, 2}

(************************** HttpError ***************************************)
\* http: error instanceof HttpError.
createHttpError(message, code) == [http |-> TRUE, message |-> message, code |-> code]

\* A thrown value that is no HttpError (TypeError, SyntaxError).
OtherError(name) == [http |-> FALSE, message |-> name, code |-> Undef]

NoError == [http |-> FALSE, message |-> "", code |-> Undef]

(************************** responses ***************************************)
NoData == "null"
Data == {"d1", "d2"}
Msgs == {"", "msg"}

Resp(kind, status, code, msg, data, btype) ==
  [kind |-> kind, status |-> status, code |-> code, msg |-> msg, data |-> data, btype |-> btype]

NoResp == Resp("none", 0, Undef, "", NoData, "")

\* No response at all: network failure, transport timeout.
NetworkFailures == {Resp("network", 0, Undef, "", NoData, "")}

HttpStatuses ==
  {ApiStatus_unauthorized, 404, ApiStatus_requestTimeout,
   ApiStatus_internalServerError, ApiStatus_badGateway,
   ApiStatus_serviceUnavailable, ApiStatus_gatewayTimeout}

\* A response rejected by validateStatus (index.ts:141).
StatusResponses == {Resp("status", s, Undef, "", NoData, "") : s \in HttpStatuses}

\* A 2xx JSON body {code, msg, data}.
SuccessEnvelopes == {Resp("json", 200, Str("0"), "msg", d, "") : d \in Data}
ErrorEnvelopes ==
  {Resp("json", 200, Str(c), m, NoData, "") : c \in {"401", "500"}, m \in Msgs}

\* A 2xx body that is no envelope (not JSON, or without code).
MalformedBodies == {Resp("malformed", 200, Undef, "", NoData, "")}

\* A 2xx blob: a file, a JSON error body, or a blob typed JSON that does not parse.
FileBlobs == {Resp("blob", 200, Undef, "", NoData, "application/octet-stream")}
JsonBlobs ==
  {Resp("blob", 200, Str(c), m, NoData, "application/json") : c \in {"", "401", "500"}, m \in Msgs}
BrokenJsonBlobs == {Resp("badblob", 200, Undef, "", NoData, "application/json")}

ResponsesFor(op) ==
  IF op = "download"
  THEN NetworkFailures \cup StatusResponses \cup FileBlobs \cup JsonBlobs \cup BrokenJsonBlobs
  ELSE NetworkFailures \cup StatusResponses \cup SuccessEnvelopes \cup ErrorEnvelopes
       \cup MalformedBodies

(************************** configurations **********************************)
\* retryCount: <<>> when the caller gives none, <<n>> otherwise.
RetryCounts == {<<>>} \cup {<<n>> : n \in 0..MaxRetryCount}

\* showErrorMessage: TRUE also stands for undefined (the code tests !== false);
\* the same holds of enableRetry.
HttpConfigs ==
  [showErrorMessage : BOOLEAN, enableRetry : BOOLEAN, retryCount : RetryCounts]

\* download reads none of the retry options.
DownloadConfigs ==
  [showErrorMessage : BOOLEAN, enableRetry : {TRUE}, retryCount : {<<>>}]

NoConfig == [showErrorMessage |-> TRUE, enableRetry |-> TRUE, retryCount |-> <<>>]

IdleCall ==
  [pc |-> "idle", op |-> "none", config |-> NoConfig, retries |-> 0, attempts |-> 0,
   resp |-> NoResp, error |-> NoError, value |-> NoData,
   toasts |-> 0, handled |-> FALSE, saved |-> 0]

\* Logouts scheduled and invoked, and unauthorized errors notified, since the
\* 401 flag was last reset.
NoWindow == [scheduled |-> 0, invoked |-> 0, toasts |-> 0]

NoProgress == [op |-> "none", loaded |-> 0, total |-> 0, value |-> 0]

(************************** timers ******************************************)
\* The pending timers, in the order they run: by expiry, and among timers
\* that expire together by creation.
TimerIds(q) == {q[i].id : i \in DOMAIN q}

FreshId(q) == CHOOSE n \in 1..(Len(q) + 1) : n \notin TimerIds(q)

\* setTimeout(callback, ms): kind names the callback, call the call it belongs
\* to.  id is the handle returned, 0 where the code drops it (index.ts:52, 73);
\* only the debounce timer's handle is kept (index.ts:77).
setTimeout(q, kind, call, ms) ==
  LET t == [id |-> IF kind = "reset" THEN FreshId(q) ELSE 0,
            kind |-> kind, call |-> call, remaining |-> ms]
      k == Cardinality({i \in DOMAIN q : q[i].remaining <= ms})
  IN  SubSeq(q, 1, k) \o <<t>> \o SubSeq(q, k + 1, Len(q))

\* The queue once its i-th timer has run.
RemoveAt(q, i) == SubSeq(q, 1, i - 1) \o SubSeq(q, i + 1, Len(q))

RECURSIVE Without(_, _)
Without(q, id) ==
  IF q = <<>> THEN <<>>
  ELSE IF Head(q).id = id THEN Tail(q)
  ELSE <<Head(q)>> \o Without(Tail(q), id)

\* clearTimeout(handle)
clearTimeout(q, handle) == IF handle = <<>> THEN q ELSE Without(q, handle[1])

Due(q) == {i \in DOMAIN q : q[i].remaining = 0}

\* The event loop runs due timers in the order they were created.
NextDue(q) == CHOOSE i \in Due(q) : \A j \in Due(q) : i <= j

(********************* the mutable state, threaded **************************)
\* The module-level state a handler reads and writes, and what the handler
\* does while it runs: toasts, the error notifications it displays, and
\* handled, whether it called handleUnauthorizedError (a call's record keeps
\* both for its current attempt).
Globals ==
  [shown |-> isUnauthorizedErrorShown, timer |-> unauthorizedTimer,
   timers |-> timers, win |-> win, toasts |-> 0, handled |-> FALSE]

\* ./error showError(error, showMessage = true): displays error.message when
\* showMessage holds.
showError(g, error, showMessage) ==
  IF showMessage
  THEN [g EXCEPT !.toasts = @ + 1,
                 !.win.toasts = IF error.code = Num(ApiStatus_unauthorized) THEN @ + 1 ELSE @]
  ELSE g

\* ./error handleError(error): the transport failure as an HttpError carrying
\* the HTTP status, or ApiStatus.error when there is no response.
handleError(resp) ==
  IF resp.kind = "status"
  THEN createHttpError(t_transportFailed, Num(resp.status))
  ELSE createHttpError(t_transportFailed, Num(ApiStatus_error))

Thrown(g, error) ==
  [g |-> g, ok |-> FALSE, error |-> error, value |-> NoData, saved |-> 0]

Returned(g, value) ==
  [g |-> g, ok |-> TRUE, error |-> NoError, value |-> value, saved |-> 0]

\* handleUnauthorizedError without the test of the flag: every 401 is a first one.
handleUnauthorizedError_noDebounce(g, message) ==
  LET error == createHttpError(IF message # "" THEN message ELSE t_unauthorized,
                               Num(ApiStatus_unauthorized))
      entered == [g EXCEPT !.handled = TRUE]
      q1 == setTimeout(g.timers, "logout", 0, LOGOUT_DELAY)
      q2 == setTimeout(q1, "reset", 0, UNAUTHORIZED_DEBOUNCE_TIME)
      armed == [entered EXCEPT !.shown = TRUE,
                               !.timers = q2,
                               !.timer = <<FreshId(q1)>>,
                               !.win.scheduled = @ + 1]
  IN  Thrown(showError(armed, error, TRUE), error)

\* handleUnauthorizedError as a trailing debounce: a suppressed 401 clears the
\* pending timer and arms a new one.
handleUnauthorizedError_rearm(g, message) ==
  LET error == createHttpError(IF message # "" THEN message ELSE t_unauthorized,
                               Num(ApiStatus_unauthorized))
      entered == [g EXCEPT !.handled = TRUE]
  IN  IF ~g.shown
      THEN LET q1 == setTimeout(g.timers, "logout", 0, LOGOUT_DELAY)
               q2 == setTimeout(q1, "reset", 0, UNAUTHORIZED_DEBOUNCE_TIME)
               armed == [entered EXCEPT !.shown = TRUE,
                                        !.timers = q2,
                                        !.timer = <<FreshId(q1)>>,
                                        !.win.scheduled = @ + 1]
           IN  Thrown(showError(armed, error, TRUE), error)
      ELSE LET q == clearTimeout(g.timers, g.timer)
           IN  Thrown([entered EXCEPT
                         !.timers = setTimeout(q, "reset", 0, UNAUTHORIZED_DEBOUNCE_TIME),
                         !.timer = <<FreshId(q)>>], error)

\* index.ts:68-83.  message is "" when the caller passes none.
handleUnauthorizedError(g, message) ==
  LET error == createHttpError(IF message # "" THEN message ELSE t_unauthorized,
                               Num(ApiStatus_unauthorized))
      entered == [g EXCEPT !.handled = TRUE]
  IN  IF ~g.shown
      THEN LET q1 == setTimeout(g.timers, "logout", 0, LOGOUT_DELAY)
               q2 == setTimeout(q1, "reset", 0, UNAUTHORIZED_DEBOUNCE_TIME)
               armed == [entered EXCEPT !.shown = TRUE,
                                        !.timers = q2,
                                        !.timer = <<FreshId(q1)>>,
                                        !.win.scheduled = @ + 1]
           IN  Thrown(showError(armed, error, TRUE), error)
      ELSE Thrown(entered, error)

\* index.ts:86-92.  The window's account is closed with the flag.
resetUnauthorizedError(g) ==
  [g EXCEPT !.shown = FALSE,
            !.timers = clearTimeout(g.timers, g.timer),
            !.timer = <<>>,
            !.win = NoWindow]

\* index.ts:98-106
shouldRetry(statusCode) ==
  statusCode \in {Num(ApiStatus_requestTimeout), Num(ApiStatus_internalServerError),
                  Num(ApiStatus_badGateway), Num(ApiStatus_serviceUnavailable),
                  Num(ApiStatus_gatewayTimeout)}

\* index.ts:178-199: the response interceptor, on the response of one attempt.
responseInterceptor(g, responseType, resp) ==
  IF resp.kind \in {"network", "status"}
  THEN IF resp.kind = "status" /\ resp.status = ApiStatus_unauthorized
       THEN handleUnauthorizedError(g, "")
       ELSE Thrown(g, handleError(resp))
  ELSE IF responseType = "blob"
  THEN Returned(g, NoData)
  ELSE IF resp.kind = "malformed"
  THEN Thrown(g, OtherError("TypeError"))     \* code is undefined: code.toString() throws
  ELSE IF resp.code = Str("0")
  THEN Returned(g, NoData)
  ELSE IF resp.code = Str("401")
  THEN handleUnauthorizedError(g, resp.msg)
  ELSE Thrown(g, createHttpError(IF resp.msg # "" THEN resp.msg ELSE t_requestFailed,
                                 resp.code))

\* request returning res.data, the envelope, in place of res.data.data.
requestValue_envelope(resp) == "envelope"

\* index.ts:214: res.data.data
requestValue(resp) == resp.data

\* index.ts:205-223
request(g, config, resp) ==
  LET r == responseInterceptor(g, "json", resp)
  IN  IF r.ok
      THEN Returned(r.g, requestValue(resp))
      ELSE IF r.error.http /\ r.error.code # Num(ApiStatus_unauthorized)
           THEN Thrown(showError(r.g, r.error, config.showErrorMessage # FALSE), r.error)
           ELSE r

\* index.ts:232: retries = config.retryCount ?? MAX_RETRIES
initialRetries(config) ==
  IF config.retryCount = <<>> THEN MAX_RETRIES ELSE config.retryCount[1]

\* retryAgain with retries >= 0 for retries > 0.
retryAgain_offByOne(config, retries, error) ==
  /\ config.enableRetry # FALSE
  /\ retries >= 0
  /\ error.http
  /\ shouldRetry(error.code)

\* retryAgain without the test of config.enableRetry.
retryAgain_ignoresEnableRetry(config, retries, error) ==
  /\ retries > 0
  /\ error.http
  /\ shouldRetry(error.code)

\* index.ts:234,240: whether retryRequest tries again after `error`.
retryAgain(config, retries, error) ==
  /\ config.enableRetry # FALSE
  /\ retries > 0
  /\ error.http
  /\ shouldRetry(error.code)

\* download without the test of the blob's type: a JSON error body is saved.
download_savesJson(g, config, resp) ==
  LET r == responseInterceptor(g, "blob", resp)
      body == IF ~r.ok THEN r ELSE [Returned(r.g, NoData) EXCEPT !.saved = 1]
  IN  IF ~body.ok /\ body.error.http
      THEN Thrown(showError(body.g, body.error, TRUE), body.error)
      ELSE body

\* index.ts:254-296, from the response on.
download(g, config, resp) ==
  LET r == responseInterceptor(g, "blob", resp)
      body ==
        IF ~r.ok THEN r
        ELSE IF resp.btype = "application/json"
        THEN IF resp.kind = "badblob"
             THEN Thrown(r.g, OtherError("SyntaxError"))       \* JSON.parse throws
             ELSE Thrown(r.g, createHttpError(
                                IF resp.msg # "" THEN resp.msg ELSE t_downloadFailed,
                                IF Truthy(resp.code) THEN resp.code ELSE Num(ApiStatus_error)))
        ELSE [Returned(r.g, NoData) EXCEPT !.saved = 1]        \* triggerDownload
  IN  IF ~body.ok /\ body.error.http
      THEN Thrown(showError(body.g, body.error, TRUE), body.error)
      ELSE body

(************************** progress ****************************************)
\* Math.round(n / d) for n >= 0, d > 0: halves round up.
MathRound(n, d) == (2 * n + d) \div (2 * d)

\* progressOf with Math.floor for Math.round.
progressOf_floor(loaded, total) ==
  IF total # 0 THEN (loaded * 100) \div total ELSE 0

\* index.ts:270-272 and 339-341
progressOf(loaded, total) ==
  IF total # 0 THEN MathRound(loaded * 100, total) ELSE 0

(************************** the state machine *******************************)
Init ==
  /\ isUnauthorizedErrorShown = FALSE
  /\ unauthorizedTimer = <<>>
  /\ timers = <<>>
  /\ calls = [c \in Callers |-> IdleCall]
  /\ issued = 0
  /\ win = NoWindow
  /\ progress = NoProgress

Commit(g) ==
  /\ isUnauthorizedErrorShown' = g.shown
  /\ unauthorizedTimer' = g.timer
  /\ timers' = g.timers
  /\ win' = g.win

\* No promise chain is being drained.
Quiet == \A c \in Callers : calls[c].pc \notin {"failed", "resolved", "rejected"}

\* A public operation is called: the first attempt is sent.  Callers are
\* interchangeable, so the idle caller of the lowest number makes the call.
Issue(c, op, config) ==
  /\ Quiet
  /\ issued < MaxCalls
  /\ calls[c].pc = "idle"
  /\ \A d \in Callers : d < c => calls[d].pc # "idle"
  /\ issued' = issued + 1
  /\ calls' = [calls EXCEPT ![c] =
        [IdleCall EXCEPT !.pc = "pending", !.op = op, !.config = config,
                         !.retries = IF op = "download" THEN 0 ELSE initialRetries(config),
                         !.attempts = 1]]
  /\ UNCHANGED <<isUnauthorizedErrorShown, unauthorizedTimer, timers, win, progress>>

\* index.ts:354-441, 452: get, post, put, patch, del and http.request are retryRequest.
Verb(c) == \E config \in HttpConfigs : Issue(c, "retryRequest", config)

\* index.ts:304-346
upload(c) == \E config \in HttpConfigs : Issue(c, "retryRequest", config)

\* index.ts:254-276
downloadCall(c) == \E config \in DownloadConfigs : Issue(c, "download", config)

\* index.ts:205-223: the response of the pending attempt, through the
\* interceptor and request; a rejection reaches retryRequest's catch.
requestResponse(c, resp) ==
  LET call == calls[c]
      r == request(Globals, call.config, resp)
      seen == [call EXCEPT !.resp = resp, !.toasts = r.g.toasts, !.handled = r.g.handled]
  IN  /\ Quiet
      /\ call.pc = "pending"
      /\ call.op = "retryRequest"
      /\ calls' = [calls EXCEPT ![c] =
            IF r.ok THEN [seen EXCEPT !.pc = "resolved", !.value = r.value]
                    ELSE [seen EXCEPT !.pc = "failed", !.error = r.error]]
      /\ Commit(r.g)
      /\ UNCHANGED <<issued, progress>>

\* index.ts:239-245: retryRequest's catch, which waits and tries again or
\* throws the error on.
retryRequest(c) ==
  LET call == calls[c]
  IN  /\ call.pc = "failed"
      /\ IF retryAgain(call.config, call.retries, call.error)
         THEN /\ calls' = [calls EXCEPT ![c] =
                    [call EXCEPT !.pc = "delay", !.resp = NoResp, !.error = NoError,
                                 !.toasts = 0, !.handled = FALSE]]
              /\ timers' = setTimeout(timers, "retry", c, RETRY_DELAY)
         ELSE /\ calls' = [calls EXCEPT ![c] = [call EXCEPT !.pc = "rejected"]]
              /\ timers' = timers
      /\ UNCHANGED <<isUnauthorizedErrorShown, unauthorizedTimer, issued, win, progress>>

\* index.ts:278-295: the response of a download.
downloadResponse(c, resp) ==
  LET call == calls[c]
      r == download(Globals, call.config, resp)
      seen == [call EXCEPT !.resp = resp,
                           !.toasts = r.g.toasts,
                           !.handled = r.g.handled,
                           !.saved = r.saved]
  IN  /\ Quiet
      /\ call.pc = "pending"
      /\ call.op = "download"
      /\ calls' = [calls EXCEPT ![c] =
            IF r.ok THEN [seen EXCEPT !.pc = "resolved"]
                    ELSE [seen EXCEPT !.pc = "rejected", !.error = r.error]]
      /\ Commit(r.g)
      /\ UNCHANGED <<issued, progress>>

\* index.ts:214, 221, 244: the promise settles and the caller's await resumes.
Settle(c) ==
  /\ calls[c].pc \in {"resolved", "rejected"}
  /\ calls' = [calls EXCEPT ![c] = IdleCall]
  /\ UNCHANGED <<isUnauthorizedErrorShown, unauthorizedTimer, timers, issued, win, progress>>

Respond(c) ==
  \E resp \in ResponsesFor(calls[c].op) :
     \/ requestResponse(c, resp)
     \/ downloadResponse(c, resp)

\* index.ts:241-242: the delay is over, retryRequest(config, retries - 1).
RetryTimeout ==
  /\ Quiet
  /\ Due(timers) # {}
  /\ LET i == NextDue(timers)
         t == timers[i]
     IN  /\ t.kind = "retry"
         /\ timers' = RemoveAt(timers, i)
         /\ calls' = [calls EXCEPT ![t.call] =
               [@ EXCEPT !.pc = "pending", !.retries = @ - 1, !.attempts = @ + 1]]
  /\ UNCHANGED <<isUnauthorizedErrorShown, unauthorizedTimer, issued, win, progress>>

\* index.ts:73-75: useUserStore().logOut()
LogoutTimeout ==
  /\ Quiet
  /\ Due(timers) # {}
  /\ LET i == NextDue(timers)
     IN  /\ timers[i].kind = "logout"
         /\ timers' = RemoveAt(timers, i)
         /\ win' = [win EXCEPT !.invoked = @ + 1]
  /\ UNCHANGED <<isUnauthorizedErrorShown, unauthorizedTimer, calls, issued, progress>>

\* index.ts:77: the debounce timer calls resetUnauthorizedError.
ResetTimeout ==
  /\ Quiet
  /\ Due(timers) # {}
  /\ LET i == NextDue(timers)
     IN  /\ timers[i].kind = "reset"
         /\ Commit(resetUnauthorizedError([Globals EXCEPT !.timers = RemoveAt(timers, i)]))
  /\ UNCHANGED <<calls, issued, progress>>

\* Time passes, never beyond a timer that is due.
Tick ==
  /\ Quiet
  /\ timers # <<>>
  /\ Due(timers) = {}
  /\ timers' = [i \in DOMAIN timers |-> [timers[i] EXCEPT !.remaining = @ - TickMs]]
  /\ UNCHANGED <<isUnauthorizedErrorShown, unauthorizedTimer, calls, issued, win, progress>>

Next ==
  \/ \E c \in Callers : Verb(c)
  \/ \E c \in Callers : upload(c)
  \/ \E c \in Callers : downloadCall(c)
  \/ \E c \in Callers : Respond(c)
  \/ \E c \in Callers : retryRequest(c)
  \/ \E c \in Callers : Settle(c)
  \/ RetryTimeout
  \/ LogoutTimeout
  \/ ResetTimeout
  \/ Tick

Spec == Init /\ [][Next]_vars

\* The work the event loop has before it: the continuation of a settled
\* promise, else the timer that is due, else waiting.
EventLoop ==
  \/ \E c \in Callers : retryRequest(c)
  \/ \E c \in Callers : Settle(c)
  \/ RetryTimeout
  \/ LogoutTimeout
  \/ ResetTimeout
  \/ Tick

\* The event loop does not stop; callers and servers owe nothing.
FairSpec == Spec /\ WF_vars(EventLoop)

(************************** progress events *********************************)
onDownloadProgress(loaded, total) ==
  /\ progress' = [op |-> "download", loaded |-> loaded, total |-> total,
                  value |-> progressOf(loaded, total)]
  /\ UNCHANGED <<isUnauthorizedErrorShown, unauthorizedTimer, timers, calls, issued, win>>

onUploadProgress(loaded, total) ==
  /\ progress' = [op |-> "upload", loaded |-> loaded, total |-> total,
                  value |-> progressOf(loaded, total)]
  /\ UNCHANGED <<isUnauthorizedErrorShown, unauthorizedTimer, timers, calls, issued, win>>

ProgressNext ==
  \/ \E loaded \in 0..MaxLoaded, total \in 0..MaxTotal : onDownloadProgress(loaded, total)
  \/ \E loaded \in 0..MaxLoaded, total \in 0..MaxTotal : onUploadProgress(loaded, total)

ProgressSpec == Init /\ [][ProgressNext]_vars

(************************** properties **************************************)
RetryableNumbers == {408, 500, 502, 503, 504}

\* config.retryCount, or the default when the caller gives none.
RetryCountOf(call) ==
  IF call.config.retryCount = <<>> THEN MAX_RETRIES ELSE call.config.retryCount[1]

IsUnauthorized(error) ==
  error.http /\ (error.code = Num(401) \/ error.code = Str("401"))

ResetTimers(q) == SelectSeq(q, LAMBDA t : t.kind = "reset")
LogoutTimers(q) == SelectSeq(q, LAMBDA t : t.kind = "logout")

\* C1: a call through the retry wrapper with retry enabled and retryCount = N
\* never makes more than N + 1 attempts of the base request, whatever codes
\* its attempts fail with, the retryable ones included.
C1_AtMostNPlusOneAttempts ==
  \A c \in Callers :
    (calls[c].op = "retryRequest" /\ calls[c].config.enableRetry)
      => calls[c].attempts <= RetryCountOf(calls[c]) + 1

\* A call with retryCount = MaxRetryCount >= 1 whose attempts all failed with
\* 503 and which was rejected after MaxRetryCount + 1 attempts.
C1_Witness ==
  \E c \in Callers :
    /\ calls[c].op = "retryRequest"
    /\ calls[c].config.enableRetry
    /\ calls[c].config.retryCount = <<MaxRetryCount>>
    /\ calls[c].pc = "rejected"
    /\ calls[c].error.code = Num(503)
    /\ calls[c].attempts = MaxRetryCount + 1
    /\ calls[c].attempts >= 2

\* A step in which the unauthorized handler runs for the pending call c.
Handles(c) == calls[c].pc = "pending" /\ calls'[c].handled

\* C2: while the 401 flag is set exactly one logout has been scheduled since
\* it was set, pending or invoked; every 401 that is handled finds or opens
\* such a window; and when the window closes that one logout has been invoked.
C2_OneLogoutPerWindow ==
  [][ /\ isUnauthorizedErrorShown' =>
           /\ win'.scheduled = 1
           /\ Len(LogoutTimers(timers')) + win'.invoked = 1
      /\ (\E c \in Callers : Handles(c)) => isUnauthorizedErrorShown'
      /\ (isUnauthorizedErrorShown /\ ~isUnauthorizedErrorShown') =>
           /\ win.scheduled = 1
           /\ win.invoked = 1
           /\ LogoutTimers(timers') = <<>> ]_vars

\* A later 401 of a window, an envelope "401" whose notification was
\* suppressed, after the window's single logout was invoked.
C2_Witness ==
  /\ isUnauthorizedErrorShown
  /\ win.scheduled = 1
  /\ win.invoked = 1
  /\ \E c \in Callers :
       /\ calls[c].pc = "rejected" /\ calls[c].op = "retryRequest"
       /\ calls[c].resp.kind = "json" /\ calls[c].handled /\ calls[c].toasts = 0

\* What the rejection of an attempt that got `resp` carries.
ErrorMatches(error, resp) ==
  /\ resp.kind = "status" => (error.http /\ error.code = Num(resp.status))
  /\ resp.kind = "network" => error.http
  /\ resp.kind = "malformed" => ~error.http
  /\ resp.kind = "json" =>
       /\ error.http
       /\ error.code = (IF resp.code = Str("401") THEN Num(401) ELSE resp.code)

\* C3: after a failed attempt retryRequest waits for another attempt exactly
\* when retries are left, retry is not disabled and the failure is an
\* HttpError whose code is one of the numbers 408, 500, 502, 503, 504; in
\* every other case it rejects, with the error of the attempt.  The error of
\* an attempt is that of its response: an envelope's code is a string.
C3_RetryExactlyWhen ==
  [][ \A c \in Callers :
        calls[c].pc = "failed" =>
          /\ ErrorMatches(calls[c].error, calls[c].resp)
          /\ calls'[c].pc \in {"failed", "delay", "rejected"}
          /\ calls'[c].pc = "delay" <=>
               /\ calls[c].retries > 0
               /\ calls[c].config.enableRetry
               /\ calls[c].error.http
               /\ calls[c].error.code.t = "number"
               /\ calls[c].error.code.n \in RetryableNumbers
          /\ calls'[c].pc = "delay" =>
               \E i \in DOMAIN timers' : timers'[i].kind = "retry" /\ timers'[i].call = c
          /\ calls'[c].pc = "rejected" =>
               /\ calls'[c].error = calls[c].error
               /\ calls'[c].attempts = calls[c].attempts
               /\ timers' = timers ]_vars

\* A call with a retry left and retry enabled that was rejected at once on an
\* envelope with code "500", while another call waits for its retry.
C3_Witness ==
  \E c, d \in Callers :
    /\ calls[c].pc = "delay"
    /\ calls[d].pc = "rejected" /\ calls[d].resp.kind = "json"
    /\ calls[d].resp.code = Str("500")
    /\ calls[d].retries > 0 /\ calls[d].config.enableRetry /\ calls[d].attempts = 1

\* C4: an attempt of the retry wrapper answered by an envelope with code "0"
\* resolves the call with the envelope's data, displays no error notification,
\* invokes no unauthorized handling and schedules no retry.
C4_SuccessResolvesWithData ==
  \A c \in Callers :
    (calls[c].op = "retryRequest" /\ calls[c].resp.kind = "json"
       /\ calls[c].resp.code = Str("0")) =>
      /\ calls[c].pc = "resolved"
      /\ calls[c].value = calls[c].resp.data
      /\ calls[c].toasts = 0
      /\ ~calls[c].handled
      /\ ~ \E i \in DOMAIN timers : timers[i].kind = "retry" /\ timers[i].call = c

\* A call resolved with "d2" on its second attempt.
C4_Witness ==
  \E c \in Callers :
    /\ calls[c].pc = "resolved"
    /\ calls[c].resp.code = Str("0")
    /\ calls[c].resp.data = "d2"
    /\ calls[c].value = "d2"
    /\ calls[c].attempts = 2

\* C5: a call rejected with an unauthorized error (code 401, or the envelope
\* code "401") had the unauthorized handler invoked for it.
C5_UnauthorizedHandledFirst ==
  \A c \in Callers :
    (calls[c].pc = "rejected" /\ IsUnauthorized(calls[c].error)) => calls[c].handled

\* C6: since the 401 flag was last reset at most one notification of an
\* unauthorized error has been displayed.
C6_OneUnauthorizedToastPerWindow == win.toasts <= 1

\* C7 as stated: a download answered by a blob typed application/json whose
\* body parses is rejected with an HttpError carrying the body's msg and code,
\* and nothing is saved.
C7_EmbeddedErrorAsStated ==
  \A c \in Callers :
    (calls[c].op = "download" /\ calls[c].resp.kind = "blob"
       /\ calls[c].resp.btype = "application/json") =>
      /\ calls[c].pc = "rejected"
      /\ calls[c].error.http
      /\ calls[c].error.message = calls[c].resp.msg
      /\ calls[c].error.code = calls[c].resp.code
      /\ calls[c].saved = 0

\* C7, amended: a download answered by a blob typed application/json saves
\* nothing and is rejected; when the body parses, with an HttpError carrying
\* the body's msg and code where these are not empty, the download-failed
\* message and ApiStatus.error where they are.
C7_EmbeddedErrorOrDefault ==
  \A c \in Callers :
    (calls[c].op = "download" /\ calls[c].resp.btype = "application/json") =>
      /\ calls[c].pc = "rejected"
      /\ calls[c].saved = 0
      /\ calls[c].resp.kind = "blob" =>
           /\ calls[c].error.http
           /\ calls[c].resp.msg # "" => calls[c].error.message = calls[c].resp.msg
           /\ calls[c].resp.msg = "" => calls[c].error.message = t_downloadFailed
           /\ calls[c].resp.code.s # "" => calls[c].error.code = calls[c].resp.code
           /\ calls[c].resp.code.s = "" => calls[c].error.code = Num(ApiStatus_error)

\* A download rejected with the embedded msg and code "500" of a JSON blob.
C7_Witness ==
  \E c \in Callers :
    /\ calls[c].op = "download"
    /\ calls[c].pc = "rejected"
    /\ calls[c].resp.kind = "blob"
    /\ calls[c].resp.btype = "application/json"
    /\ calls[c].error = createHttpError("msg", Str("500"))
    /\ calls[c].saved = 0

\* C8: a call made with showErrorMessage: false displays no error notification.
C8_OptOutShowsNothing ==
  \A c \in Callers : ~calls[c].config.showErrorMessage => calls[c].toasts = 0

\* C9 as stated: the value handed to onProgress is floor(loaded / total * 100)
\* when total is not zero, and 0 otherwise.
C9_ProgressIsFloor ==
  progress.op # "none" =>
    progress.value = (IF progress.total # 0
                      THEN (progress.loaded * 100) \div progress.total ELSE 0)

\* C9, amended: the value is loaded / total * 100 rounded to the nearest
\* integer, halves upwards, when total is not zero, and 0 otherwise.
C9_ProgressIsRounded ==
  progress.op # "none" =>
    IF progress.total # 0
    THEN /\ 2 * progress.value * progress.total <= 200 * progress.loaded + progress.total
         /\ 200 * progress.loaded + progress.total < 2 * (progress.value + 1) * progress.total
    ELSE progress.value = 0

\* 2 of 3 bytes: 66.67 is reported as 67.
C9_Witness ==
  progress.op = "upload" /\ progress.loaded = 2 /\ progress.total = 3 /\ progress.value = 67

\* C10: a 401 handled while the flag is set leaves the flag, the handle and
\* the pending reset timer as they are; a 401 handled while it is not set arms
\* a timer of the full debounce time; the flag falls only when the timer the
\* handle names has run down, and the handle is then null; and once set the
\* flag does fall.
C10_WindowNotExtended ==
  /\ [][ (isUnauthorizedErrorShown /\ \E c \in Callers : Handles(c)) =>
           /\ isUnauthorizedErrorShown'
           /\ unauthorizedTimer' = unauthorizedTimer
           /\ ResetTimers(timers') = ResetTimers(timers) ]_vars
  /\ [][ (~isUnauthorizedErrorShown /\ \E c \in Callers : Handles(c)) =>
           /\ isUnauthorizedErrorShown'
           /\ unauthorizedTimer' # <<>>
           /\ \E i \in DOMAIN timers' :
                /\ timers'[i].kind = "reset"
                /\ timers'[i].id = unauthorizedTimer'[1]
                /\ timers'[i].remaining = 3000 ]_vars
  /\ [][ (isUnauthorizedErrorShown /\ ~isUnauthorizedErrorShown') =>
           /\ unauthorizedTimer' = <<>>
           /\ ResetTimers(timers') = <<>>
           /\ \E i \in DOMAIN timers :
                /\ timers[i].kind = "reset"
                /\ <<timers[i].id>> = unauthorizedTimer
                /\ timers[i].remaining = 0 ]_vars
  /\ isUnauthorizedErrorShown ~> (~isUnauthorizedErrorShown /\ unauthorizedTimer = <<>>)

\* A second 401 handled 1500 ms into the window: the reset timer still has
\* the 1500 ms it had, and the handle still names it.
C10_Witness ==
  /\ isUnauthorizedErrorShown
  /\ \E c \in Callers :
       /\ calls[c].pc = "rejected" /\ calls[c].op = "retryRequest"
       /\ calls[c].handled /\ calls[c].toasts = 0
  /\ \E i \in DOMAIN timers :
       /\ timers[i].kind = "reset"
       /\ <<timers[i].id>> = unauthorizedTimer
       /\ timers[i].remaining = 1500

====
